---------------------------- MODULE Spec2Model ----------------------------
(***************************************************************************)
(* A model of mosaic/beamforming.py: the Overlap, Tiling, PsfSim/BeamShape *)
(* and DelayPolynomial objects and the operations on them.                 *)
(*                                                                         *)
(* Numbers.  Angles, widths and delays are integers in a fixed small unit.  *)
(* An overlap level is an integer number of percent (50 is the default     *)
(* 0.5).  A float quotient n/d is the record [num |-> n, den |-> d];       *)
(* den = 0 is the non-finite result numpy gives for a division by zero     *)
(* (nan for 0/0).                                                          *)
(*                                                                         *)
(* Collaborators.  The packing engine, the overlap computation, the        *)
(* observation engine and the delay oracle are not part of the module      *)
(* modelled; what they return is drawn from small sets.                    *)
(*                                                                         *)
(* Errors.  The result of an operation carries the name of the Python      *)
(* exception class that leaves it, or "none".                              *)
(***************************************************************************)
EXTENDS Integers, Sequences, FiniteSets, TLC

VARIABLES
    ov,         \* the Overlap object at hand (or None)
    fr,         \* what the last calculate_fractions call on ov did
    shapes,     \* the BeamShape objects, by identity
    tilings,    \* the Tiling each caller's reference holds (or None)
    packCalls,  \* the packing-engine call that produced each of them
    ovCall,     \* the last calculateBeamOverlaps call and its result (or None)
    last,       \* the last width_at_overlap call and its result (or None)
    sim,        \* the PsfSim object (or None)
    psfOut,     \* what the last get_beam_shape call did
    dp,         \* the DelayPolynomial object
    oracle,     \* the delay oracle's answers
    polyOut,    \* what the last get_delay_polynomials call did
    failed,     \* the last operation an exception left, and the exception (or None)
    engines,    \* the observation engines, by identity
    psfs,       \* the PsfSim objects whose get_beam_shape runs step by step
    gui,        \* the Pack button of the GUI
    widthLog    \* the width_at_overlap calls made so far and their results

vars ==
    <<ov, fr, shapes, tilings, packCalls, ovCall, last, sim, psfOut, dp, oracle,
      polyOut, failed, engines, psfs, gui, widthLog>>

overlapVars == <<ov, fr>>
tilingVars  == <<shapes, tilings, packCalls, ovCall, last>>
psfVars     == <<sim, psfOut>>
delayVars   == <<dp, oracle, polyOut>>
stepVars    == <<engines, psfs>>

\* A reference that may be None is a sequence of length 0 (None) or 1 (the
\* object it refers to).
None == <<>>
Some(x) == <<x>>
Get(r) == r[1]

(***************************************************************************)
(* Bounds of the model.                                                    *)
(***************************************************************************)
\* Most grid points an Overlap's metrics hold.
MaxGrid == 3
\* Largest coverage count of one grid point.
MaxCount == 2
\* Most beams a caller asks for, and most tile centers the packing engine
\* returns.
MaxBeams == 2
\* Most antennas handed to a PsfSim.
MaxAntennas == 4
\* Most antennas of a DelayPolynomial.
MaxDelayAntennas == 2
\* Most targets of a DelayPolynomial.
MaxTargets == 2
\* Largest tiling radius, asked for or returned.
MaxRadius == 1
\* Most width_at_overlap calls kept in widthLog.
MaxWidthCalls == 3

(***************************************************************************)
(* Sequences and float quotients.                                          *)
(***************************************************************************)
\* All sequences over S of length at most n.
SeqsUpTo(S, n) == UNION {[1..k -> S] : k \in 0..n}

\* a / float(b) of numpy: the quotient, non-finite when b = 0 (only a
\* RuntimeWarning is issued, no exception).
Divide(a, b) == [num |-> a, den |-> b]

IsFinite(q) == q.den # 0

\* The sum of three float quotients equals 1.0.
SumIsOne(x, y, z) ==
    /\ IsFinite(x) /\ IsFinite(y) /\ IsFinite(z)
    /\ x.num * y.den * z.den + y.num * x.den * z.den + z.num * x.den * y.den
         = x.den * y.den * z.den

\* Two float quotients are the same number (both finite) or both non-finite
\* with the same numerator.
SameQuotient(x, y) ==
    IF IsFinite(x) /\ IsFinite(y) THEN x.num * y.den = y.num * x.den
    ELSE x.den = y.den /\ x.num = y.num

(***************************************************************************)
(* Errors.                                                                 *)
(***************************************************************************)
NoError == "none"

\* `raise "some text"`: a str is no exception, so the raise statement itself
\* fails with TypeError ("exceptions must derive from BaseException").
RaiseString == "TypeError"

(***************************************************************************)
(* Overlap.                                                                *)
(***************************************************************************)
Modes == {"counter", "heater"}

\* Overlap.__init__
NewOverlapObject(metrics, mode) == [metrics |-> metrics, mode |-> mode]

\* np.count_nonzero(overlap_counter > 1)
CountAboveOne(metrics) == Cardinality({i \in DOMAIN metrics : metrics[i] > 1})
\* np.count_nonzero(overlap_counter == 1)
CountEqualOne(metrics) == Cardinality({i \in DOMAIN metrics : metrics[i] = 1})
\* np.count_nonzero(overlap_counter == 0)
CountEqualZero(metrics) == Cardinality({i \in DOMAIN metrics : metrics[i] = 0})

NoFractions == None

NoCall == [called |-> FALSE, error |-> NoError, fractions |-> NoFractions]

\* calculate_fractions with the first comparison off by one (>= 1 for > 1).
FractionsMutC4(metrics) ==
    LET overlap_grid     == Cardinality({i \in DOMAIN metrics : metrics[i] >= 1})
        non_overlap_grid == CountEqualOne(metrics)
        empty_grid       == CountEqualZero(metrics)
        point_num        == overlap_grid + non_overlap_grid + empty_grid
    IN  [overlapped     |-> Divide(overlap_grid, point_num),
         non_overlapped |-> Divide(non_overlap_grid, point_num),
         empty          |-> Divide(empty_grid, point_num)]

\* The three values calculate_fractions returns in counter mode.
Fractions(metrics) ==
    LET overlap_grid     == CountAboveOne(metrics)
        non_overlap_grid == CountEqualOne(metrics)
        empty_grid       == CountEqualZero(metrics)
        point_num        == overlap_grid + non_overlap_grid + empty_grid
    IN  [overlapped     |-> Divide(overlap_grid, point_num),
         non_overlapped |-> Divide(non_overlap_grid, point_num),
         empty          |-> Divide(empty_grid, point_num)]

\* Overlap.calculate_fractions
CalculateFractionsResult(o) ==
    IF o.mode # "counter"
    THEN [called |-> TRUE, error |-> RaiseString, fractions |-> NoFractions]
    ELSE [called |-> TRUE, error |-> NoError, fractions |-> Some(Fractions(o.metrics))]

\* Overlap(metrics, mode): a caller builds an Overlap from any grid.
NewOverlap ==
    \E metrics \in SeqsUpTo(0..MaxCount, MaxGrid), mode \in Modes :
        /\ ov' = Some(NewOverlapObject(metrics, mode))
        /\ fr' = NoCall
        /\ UNCHANGED <<widthLog, stepVars, gui, failed, tilingVars, psfVars, delayVars>>

\* overlap.calculate_fractions()
CalculateFractions ==
    /\ ov # None
    /\ fr' = CalculateFractionsResult(Get(ov))
    /\ UNCHANGED <<widthLog, stepVars, gui, failed, ov, tilingVars, psfVars, delayVars>>

(***************************************************************************)
(* BeamShape.                                                              *)
(***************************************************************************)
\* A float that may be non-finite.
Finite(v) == [kind |-> "finite", value |-> v]
Inf == [kind |-> "inf", value |-> 0]
NaN == [kind |-> "nan", value |-> 0]

\* BeamShape.__init__
BeamShapeObject(axisH, axisV, angle, psf, antennas, bore_sight, reference_antenna, horizon) ==
    [axisH |-> axisH, axisV |-> axisV, angle |-> angle, psf |-> psf,
     antennas |-> antennas, bore_sight |-> bore_sight,
     reference_antenna |-> reference_antenna, horizon |-> horizon]

\* The overlap levels of the model, in percent: two outside the open
\* interval (0, 100), its two ends, and levels inside it.
InvalidOverlaps == {-50, 0, 100, 150}
ValidOverlaps == {25, 50, 75}
Overlaps == InvalidOverlaps \cup ValidOverlaps
IsValidOverlap(overlap) == 0 < overlap /\ overlap < 100

\* 1000 * sqrt(-2 * ln(p / 100)) for the levels inside (0, 100), rounded.
SqrtMinusTwoLog(p) ==
    CASE p = 25 -> 1665
      [] p = 50 -> 1177
      [] p = 75 -> 759

\* utilities.normInverse(value, mean, sigma): the offset at which a Gaussian
\* of deviation sigma has dropped to `value` of its peak,
\* sigma * sqrt(-2 ln value) + mean, evaluated with numpy: ln 1 = 0 gives
\* mean, ln 0 = -inf gives inf, and the logarithm of a negative number or the
\* root of a negative number gives nan; no exception is raised.
normInverse(value, mean, sigma) ==
    IF IsValidOverlap(value)
    THEN Finite((sigma * SqrtMinusTwoLog(value)) \div 1000 + mean)
    ELSE IF value = 100 THEN Finite(mean)
    ELSE IF value = 0 /\ sigma > 0 THEN Inf
    ELSE NaN

\* axis * (2. / 2.3548200450309493)
SigmaOf(axis) == (axis * 20000) \div 23548

\* width_at_overlap with mean and sigma exchanged in the normInverse calls.
width_at_overlapMutC11(shape, overlap) ==
    LET sigmaH == SigmaOf(shape.axisH)
        sigmaV == SigmaOf(shape.axisV)
        widthH == normInverse(overlap, sigmaH, 0)
        widthV == normInverse(overlap, sigmaV, 0)
    IN  <<widthH, widthV>>

\* BeamShape.width_at_overlap: the pair (widthH, widthV).
width_at_overlap(shape, overlap) ==
    LET sigmaH == SigmaOf(shape.axisH)
        sigmaV == SigmaOf(shape.axisV)
        widthH == normInverse(overlap, 0, sigmaH)
        widthV == normInverse(overlap, 0, sigmaV)
    IN  <<widthH, widthV>>

\* A width_at_overlap that works in place: it assigns the widths it
\* computed to self.axisH and self.axisV.
WidthCallMutC12(s, overlap) ==
    LET widths == width_at_overlap(shapes[s], overlap)
    IN  [shape |-> s, overlap |-> overlap, error |-> NoError,
         widths |-> Some(widths),
         self |-> [shapes[s] EXCEPT !.axisH = widths[1].value,
                                    !.axisV = widths[2].value]]

\* What a width_at_overlap call on shapes[s] did: the widths it returned
\* and the BeamShape after the call.  The method assigns no attribute, so
\* the BeamShape is as it was.
WidthCall(s, overlap) ==
    [shape |-> s, overlap |-> overlap, error |-> NoError,
     widths |-> Some(width_at_overlap(shapes[s], overlap)),
     self |-> shapes[s]]

(***************************************************************************)
(* The packing engine (tile.ellipseCompact, tile.ellipseGrid) and the      *)
(* overlap computation (beamshape.calculateBeamOverlaps).  What they       *)
(* return is an input of the model.                                        *)
(***************************************************************************)
\* The i-th tile center.
Center(i) == <<i, 0 - i>>

\* ellipseCompact returns (coordinates, radius): k centers as a k x 2 array.
CompactResponse(k, r) == <<[i \in 1..k |-> Center(i)], r>>

\* ellipseGrid returns the centers as a 2 x k array: the row of the first
\* components, then the row of the second components.
GridResponse(k) == <<[i \in 1..k |-> Center(i)[1]], [i \in 1..k |-> Center(i)[2]]>>

\* numpy's .T of a two-dimensional array given as the sequence of its rows.
Transpose(m) ==
    IF m = <<>> THEN <<>>
    ELSE [j \in 1..Len(m[1]) |-> [i \in 1..Len(m) |-> m[i][j]]]

\* The grids calculateBeamOverlaps returns in the model.
OverlapGrids == {<<0, 1, 2>>}

\* The precision generate_nbeams_tiling hands to ellipseCompact.
PackPrecision == 10

(***************************************************************************)
(* Tiling.                                                                 *)
(***************************************************************************)
\* The references callers hold Tilings by.
TilingRefs == {"t1", "t2"}
\* The identities of the BeamShape objects.
ShapeIds == {1, 2}
\* The overlap levels the generators are called with: the default 0.5 and
\* 1.0, the upper end of the interval.
TilingOverlaps == {50, 100}

\* Tiling.__init__ with coordinates.shape[1] taken for len(coordinates).
TilingObjectMutC1(coordinates, beam_shape, radius, overlap) ==
    [coordinates |-> coordinates, beam_shape |-> beam_shape,
     tiling_radius |-> radius,
     beam_num |-> IF coordinates = <<>> THEN 0 ELSE Len(coordinates[1]),
     overlap |-> overlap]

\* Tiling.__init__ holding another BeamShape object than the one it was
\* given.
TilingObjectMutC21(coordinates, beam_shape, radius, overlap) ==
    [coordinates |-> coordinates, beam_shape |-> 3 - beam_shape,
     tiling_radius |-> radius, beam_num |-> Len(coordinates),
     overlap |-> overlap]

\* Tiling.__init__; beam_shape is the identity of the BeamShape, which the
\* Tiling references and does not copy.
TilingObject(coordinates, beam_shape, radius, overlap) ==
    [coordinates |-> coordinates, beam_shape |-> beam_shape,
     tiling_radius |-> radius, beam_num |-> Len(coordinates),
     overlap |-> overlap]

\* The ellipseCompact call of generate_nbeams_tiling, with the overlap it was
\* made for, the number of centers the engine answered with and the radius
\* it answered with.
CompactCall(s, beam_num, overlap, k, r) ==
    LET w == width_at_overlap(shapes[s], overlap)
    IN  [fn |-> "ellipseCompact",
         args |-> <<beam_num, w[1], w[2], shapes[s].angle, PackPrecision>>,
         beam_shape |-> s, overlap |-> overlap, centers |-> k,
         radius |-> Some(r)]

\* generate_nbeams_tiling with the requested beam number stored as the
\* Tiling's radius.
NbeamsTilingMutC20(s, beam_num, overlap, response) ==
    TilingObject(response[1], s, beam_num, overlap)

\* generate_nbeams_tiling with the transpose of generate_radius_tiling.
NbeamsTilingMutC2(s, beam_num, overlap, response) ==
    TilingObject(Transpose(response[1]), s, response[2], overlap)

\* generate_nbeams_tiling: the Tiling built from the engine's response.
NbeamsTiling(s, beam_num, overlap, response) ==
    TilingObject(response[1], s, response[2], overlap)

\* The ellipseGrid call of generate_radius_tiling, with the overlap it was
\* made for and the number of centers the engine answered with; the engine
\* answers with no radius.
GridCall(s, tiling_radius, overlap, k) ==
    LET w == width_at_overlap(shapes[s], overlap)
    IN  [fn |-> "ellipseGrid",
         args |-> <<tiling_radius, w[1], w[2], shapes[s].angle>>,
         beam_shape |-> s, overlap |-> overlap, centers |-> k,
         radius |-> None]

\* generate_radius_tiling: the Tiling built from the engine's response.
RadiusTiling(s, tiling_radius, overlap, response) ==
    TilingObject(Transpose(response), s, tiling_radius, overlap)

\* widths = shapes[s].width_at_overlap(overlap)
WidthAtOverlap(s, overlap) ==
    /\ s \in DOMAIN shapes
    /\ LET call == WidthCall(s, overlap)
       IN  /\ last' = Some(call)
           /\ shapes' = [shapes EXCEPT ![s] = call.self]
    /\ UNCHANGED <<widthLog, stepVars, gui, failed, tilings, packCalls, ovCall,
                   overlapVars, psfVars, delayVars>>

\* widths = shapes[s].width_at_overlap(overlap), the call kept in widthLog
\* with its result and with whether a Tiling had been generated and an
\* overlap calculated before it.
WidthAtOverlapLogged(s, overlap) ==
    /\ s \in DOMAIN shapes
    /\ Len(widthLog) < MaxWidthCalls
    /\ LET call == WidthCall(s, overlap)
       IN  /\ last' = Some(call)
           /\ shapes' = [shapes EXCEPT ![s] = call.self]
           /\ widthLog' = Append(widthLog,
                                 [shape |-> s, overlap |-> overlap,
                                  widths |-> call.widths,
                                  generated |-> tilings["t1"] # None,
                                  overlapped |-> ovCall # None])
    /\ UNCHANGED <<stepVars, gui, failed, tilings, packCalls, ovCall,
                   overlapVars, psfVars, delayVars>>

\* tilings[t] = generate_nbeams_tiling(shapes[s], beam_num, overlap), the
\* engine answering with k centers and the radius r.
GenerateNbeamsTiling(t, s, beam_num, overlap, k, r) ==
    /\ s \in DOMAIN shapes
    /\ last' = Some(WidthCall(s, overlap))
    /\ packCalls' = [packCalls EXCEPT ![t] = Some(CompactCall(s, beam_num, overlap, k, r))]
    /\ tilings' = [tilings EXCEPT
                     ![t] = Some(NbeamsTiling(s, beam_num, overlap,
                                              CompactResponse(k, r)))]
    /\ UNCHANGED <<widthLog, stepVars, gui, failed, shapes, ovCall, overlapVars,
                   psfVars, delayVars>>

\* tilings[t] = generate_radius_tiling(shapes[s], tiling_radius, overlap),
\* the engine answering with k centers.
GenerateRadiusTiling(t, s, tiling_radius, overlap, k) ==
    /\ s \in DOMAIN shapes
    /\ last' = Some(WidthCall(s, overlap))
    /\ packCalls' = [packCalls EXCEPT ![t] = Some(GridCall(s, tiling_radius, overlap, k))]
    /\ tilings' = [tilings EXCEPT
                     ![t] = Some(RadiusTiling(s, tiling_radius, overlap,
                                              GridResponse(k)))]
    /\ UNCHANGED <<widthLog, stepVars, gui, failed, shapes, ovCall, overlapVars,
                   psfVars, delayVars>>

\* calculate_overlap with the test of new_beam_shape inverted: the Tiling's
\* own BeamShape is taken when another one is given.
OverlapCallMutC19(t, mode, new_beam_shape, by, metrics) ==
    LET self == Get(tilings[t])
        beam_shape == shapes[self.beam_shape]
    IN  [tiling |-> t, by |-> by, request |-> <<mode, new_beam_shape>>,
         args |-> <<self.coordinates, self.tiling_radius, beam_shape.axisH,
                    beam_shape.axisV, beam_shape.angle, self.overlap, mode>>,
         result |-> NewOverlapObject(metrics, mode)]

\* The calculateBeamOverlaps call of Tiling.calculate_overlap, for the
\* arguments (mode, new_beam_shape) the method was called with, and the
\* Overlap built from the grid it returns.  new_beam_shape is None or the
\* identity of a BeamShape.
OverlapCall(t, mode, new_beam_shape, by, metrics) ==
    LET self == Get(tilings[t])
        beam_shape == IF new_beam_shape = None
                      THEN shapes[self.beam_shape]
                      ELSE shapes[Get(new_beam_shape)]
    IN  [tiling |-> t, by |-> by, request |-> <<mode, new_beam_shape>>,
         args |-> <<self.coordinates, self.tiling_radius, beam_shape.axisH,
                    beam_shape.axisV, beam_shape.angle, self.overlap, mode>>,
         result |-> NewOverlapObject(metrics, mode)]

\* overlap = tilings[t].calculate_overlap(mode, new_beam_shape), the overlap
\* computation answering with the grid metrics.
CalculateOverlap(t, mode, new_beam_shape, metrics) ==
    /\ tilings[t] # None
    /\ ovCall' = Some(OverlapCall(t, mode, new_beam_shape, "calculate_overlap",
                                  metrics))
    /\ UNCHANGED <<widthLog, stepVars, gui, failed, shapes, tilings, packCalls, last, overlapVars, psfVars,
                   delayVars>>

\* tilings[t].plot_sky_pattern(filename): calculate_overlap("heater", None),
\* then the plot of its result.
PlotSkyPattern(t, metrics) ==
    /\ tilings[t] # None
    /\ ovCall' = Some(OverlapCall(t, "heater", None, "plot_sky_pattern", metrics))
    /\ UNCHANGED <<widthLog, stepVars, gui, failed, shapes, tilings, packCalls, last, overlapVars, psfVars,
                   delayVars>>

\* tilings[t].get_equatorial_coordinates(): the coordinates are handed to the
\* coordinate adapter with the BeamShape's bore_sight; nothing is stored.
GetEquatorialCoordinates(t) ==
    /\ tilings[t] # None
    /\ UNCHANGED vars

(***************************************************************************)
(* PsfSim and the observation engine                                       *)
(* (interferometer.InterferometryObservation).  What the engine's getters  *)
(* return is an input of the model; the psf it returns stands for the      *)
(* contour it was computed from.                                           *)
(***************************************************************************)
\* PsfSim.reference_antenna
ReferenceAntenna == <<-30711, 21444, 1035>>

\* PsfSim.sol, the speed of light in m/s.
sol == 299792458

\* The frequency lists of the model, in MHz.
FrequencyLists == {<<1284>>, <<1284, 1400>>}

\* float(sol) / np.array(frequencies) in millimetres; an array of one
\* wavelength is replaced by that wavelength.
WaveLengths(frequencies) ==
    LET waveLengths == [i \in DOMAIN frequencies |-> sol \div (frequencies[i] * 1000)]
    IN  IF Len(waveLengths) = 1 THEN waveLengths[1] ELSE waveLengths

\* The i-th antenna as [latitude, longitude, elevation].
AntennaCoordinates(i) == <<-30711 - i, 21444 + i, 1035>>

\* np.rad2deg of a value in milliradians, in degrees.
Rad2Deg(mrad) == (mrad * 180000) \div 3141593

\* The forms an antenna list comes in: a list of [lat, lon, elev] rows, a
\* list of katpoint.Antenna objects, or a list of anything else.
AntennaKinds == {"literal", "katpoint", "other"}

\* PsfSim.check_antennas on a list of n >= 1 elements of one form: rows are
\* returned as they are, katpoint antennas as their rows, and for any other
\* element no branch is taken and the function ends without a return
\* statement, which yields None.
check_antennas(kind, n) ==
    IF kind = "literal" \/ kind = "katpoint"
    THEN Some([i \in 1..n |-> AntennaCoordinates(i)])
    ELSE None

\* The sources of the model: [RA, DEC] lists in degrees, katpoint targets
\* with RA and DEC in milliradians, and a source of neither form.
Sources ==
    {[kind |-> "literal", value |-> <<10, 20>>],
     [kind |-> "literal", value |-> <<30, 40>>],
     [kind |-> "katpoint", value |-> <<1000, 500>>],
     [kind |-> "other", value |-> <<0, 0>>]}

\* PsfSim.check_source
check_source(source) ==
    IF source.kind = "literal" THEN Some(source.value)
    ELSE IF source.kind = "katpoint"
    THEN Some(<<Rad2Deg(source.value[1]), Rad2Deg(source.value[2])>>)
    ELSE None

\* The observation times of the model.
Times == {1, 2}

\* The (axisH, axisV, angle) triples getBeamAxis answers with.
BeamAxes == {<<2000, 1000, 30>>, <<1500, 1500, 0>>, <<1000, 2000, 90>>}

\* The (azimuth, elevation) pairs getHorizontal answers with, in
\* milliradians.
Horizontals == {<<1571, 785>>, <<0, 1571>>}

\* InterferometryObservation(reference_antenna, waveLengths)
NewObservation(reference, waveLengths) ==
    [reference |-> reference, waveLengths |-> waveLengths,
     boreSight |-> None, observeTime |-> None, contour |-> None]

\* PsfSim.__init__ for a list of n >= 1 antennas.
PsfSimObject(kind, n, frequencies) ==
    [observation |-> NewObservation(ReferenceAntenna, WaveLengths(frequencies)),
     antennas |-> check_antennas(kind, n)]

\* No get_beam_shape call yet.
NoShapeCall ==
    [called |-> FALSE, args |-> <<>>, error |-> NoError, shape |-> None,
     calls |-> <<>>]

\* The antenna check of get_beam_shape taken as len(self.antennas) < 2.
TooFewAntennasMutC18(antennas) == Len(antennas) < 2

\* len(self.antennas) < 3
TooFewAntennas(antennas) == Len(antennas) < 3

\* A call of a method of the observation engine with its arguments.
EngineCall(fn, args) == [fn |-> fn, args |-> args]

\* The engine calls of get_beam_shape with getBeamAxis read before
\* createContour.
EngineCallsMutC17(bore_sight, time, antennas) ==
    <<EngineCall("setBoreSight", <<bore_sight>>),
      EngineCall("setObserveTime", <<time>>),
      EngineCall("getBeamAxis", <<>>),
      EngineCall("createContour", <<antennas>>),
      EngineCall("getHorizontal", <<>>),
      EngineCall("getPointSpreadFunction", <<>>)>>

\* The calls get_beam_shape makes on self.observation, in the order of its
\* statements.
EngineCalls(bore_sight, time, antennas) ==
    <<EngineCall("setBoreSight", <<bore_sight>>),
      EngineCall("setObserveTime", <<time>>),
      EngineCall("createContour", <<antennas>>),
      EngineCall("getBeamAxis", <<>>),
      EngineCall("getHorizontal", <<>>),
      EngineCall("getPointSpreadFunction", <<>>)>>

\* The observation engine after setBoreSight, setObserveTime and
\* createContour.
ObservationAfter(observation, bore_sight, time, antennas) ==
    [observation EXCEPT
        !.boreSight = Some(bore_sight), !.observeTime = Some(time),
        !.contour = Some([boreSight |-> bore_sight, observeTime |-> time,
                          antennas |-> antennas])]

\* PsfSim.get_beam_shape(source, time): what the call did, the engine
\* answering getBeamAxis with axes and getHorizontal with horizontal
\* (milliradians).
get_beam_shape(self, source, time, axes, horizontal) ==
    IF self.antennas = None
    THEN \* len(None)
         [called |-> TRUE, args |-> <<source, time>>, error |-> "TypeError",
          shape |-> None, calls |-> <<>>]
    ELSE IF TooFewAntennas(Get(self.antennas))
    THEN [called |-> TRUE, args |-> <<source, time>>, error |-> RaiseString,
          shape |-> None, calls |-> <<>>]
    ELSE
      LET bore_sight == check_source(source)
          antennas == Get(self.antennas)
          observation == ObservationAfter(self.observation, bore_sight, time,
                                          antennas)
          horizon == <<Rad2Deg(horizontal[1]), Rad2Deg(horizontal[2])>>
          psf == Get(observation.contour)
      IN  [called |-> TRUE, args |-> <<source, time>>, error |-> NoError,
           shape |-> Some(BeamShapeObject(axes[1], axes[2], axes[3], psf,
                                          antennas, bore_sight,
                                          self.observation.reference, horizon)),
           calls |-> EngineCalls(bore_sight, time, antennas)]

\* sim = PsfSim(antennas, frequencies) for a list of n antennas of one form;
\* an empty list fails at antennas[0] and no PsfSim comes to be.
NewPsfSim(kind, n, frequencies) ==
    /\ n >= 1
    /\ sim' = Some(PsfSimObject(kind, n, frequencies))
    /\ psfOut' = NoShapeCall
    /\ UNCHANGED <<widthLog, stepVars, gui, failed, overlapVars, tilingVars, delayVars>>

\* shape = sim.get_beam_shape(source, time)
GetBeamShape(source, time, axes, horizontal) ==
    /\ sim # None
    /\ LET out == get_beam_shape(Get(sim), source, time, axes, horizontal)
       IN  /\ psfOut' = out
           /\ sim' = IF out.error = NoError
                     THEN Some([Get(sim) EXCEPT
                                  !.observation =
                                     ObservationAfter(@, check_source(source),
                                                      time, Get(Get(sim).antennas))])
                     ELSE sim
    /\ UNCHANGED <<widthLog, stepVars, gui, failed, overlapVars, tilingVars, delayVars>>

(***************************************************************************)
(* DelayPolynomial and the delay oracle (katpoint.DelayCorrection).        *)
(* An antenna is known by its identifier, a number standing for its name;  *)
(* a target by the direction it points to.                                 *)
(***************************************************************************)
AntennaIds == 1..MaxDelayAntennas
Directions == {1, 2}
\* The (delay, rate) pairs the oracle answers with.
DelayPairs == {<<3, 1>>, <<5, 2>>}

\* The antenna lists: the sequences without repetition of 1 to
\* MaxDelayAntennas antennas, in any order.
AntennaLists ==
    {q \in SeqsUpTo(AntennaIds, MaxDelayAntennas) :
        /\ Len(q) >= 1
        /\ \A i, j \in DOMAIN q : i # j => q[i] # q[j]}

\* The lists of directions targets are given for.
DirectionLists == {q \in SeqsUpTo(Directions, MaxTargets) : Len(q) >= 1}

\* A target list as the caller gives it: katpoint targets, or [RA, DEC]
\* pairs ("literal"), of the directions q.
TargetList(form, q) == [i \in DOMAIN q |-> [form |-> form, direction |-> q[i]]]

\* DelayPolynomial.frequency
Frequency == 1400000000

\* The elements of a sequence.
Range(q) == {q[i] : i \in DOMAIN q}

\* sorted(keys): the members of a set of numbers in ascending order.
RECURSIVE Sorted(_)
Sorted(S) ==
    IF S = {} THEN <<>>
    ELSE LET least == CHOOSE x \in S : \A y \in S : x <= y
         IN  <<least>> \o Sorted(S \ {least})

\* The name of an input of the oracle: the antenna's name followed by the
\* polarisation, h (0) before v (1); names compare as their numbers do.
InputKey(antenna, pol) == 2 * antenna + pol

\* dc.corrections(target, timestamp)[0]: for each input of each antenna, the
\* rows (delay, rate) of the time samples.  The horizontal polarisation's
\* first sample is the oracle's answer for the antenna; the model tells the
\* other polarisation and the second sample apart by an offset.
Corrections(antennas, target) ==
    [key \in {InputKey(a, pol) : a \in Range(antennas), pol \in {0, 1}} |->
        LET a == key \div 2
            pol == key % 2
            first == oracle[<<target.direction, a>>]
        IN  <<<<first[1] + 10 * pol, first[2] + 10 * pol>>,
              <<first[1] + 10 * pol + 100, first[2] + 10 * pol + 100>>>>]

\* dict_to_ordered_list: the values in ascending order of their keys.
dict_to_ordered_list(dict_obj) ==
    LET keys == Sorted(DOMAIN dict_obj)
    IN  [i \in DOMAIN keys |-> dict_obj[keys[i]]]

\* delayArray[::2][:,0,:]: every second input from the first on, and of each
\* the first sample.
OnePolarisationFirstSample(delayArray) ==
    [i \in 1..((Len(delayArray) + 1) \div 2) |-> delayArray[2 * i - 1][1]]

\* The epochs of the model as (days since the epoch, seconds): an int or a
\* float of seconds, or a datetime.
Epochs ==
    {[kind |-> "int", value |-> <<0, 100>>],
     [kind |-> "float", value |-> <<0, 250>>],
     [kind |-> "datetime", value |-> <<1, 40>>]}
Durations == {10, 20}

\* coord.datetimeToEpoch
datetimeToEpoch(value) == value[1] * 86400 + value[2]

\* check_time with its test inverted: a datetime is returned as it is.
check_timeMutC22(time) ==
    IF time.kind = "int" \/ time.kind = "float"
    THEN datetimeToEpoch(time.value)
    ELSE time.value[2]

\* DelayPolynomial.check_time
check_time(time) ==
    IF time.kind # "int" /\ time.kind # "float"
    THEN datetimeToEpoch(time.value)
    ELSE time.value[2]

\* DelayPolynomial.make_katpoint_target: a katpoint target for each
\* [RA, DEC] pair.
make_katpoint_target(sources) ==
    [i \in DOMAIN sources |->
        [form |-> "katpoint", direction |-> sources[i].direction]]

\* DelayPolynomial.check_targets: the form of the first element decides.
check_targets(targets) ==
    IF targets[1].form = "katpoint" THEN targets
    ELSE make_katpoint_target(targets)

\* DelayPolynomial.__init__
DelayPolynomialObject(antennas, targets, reference) ==
    [antennas |-> antennas, targets |-> check_targets(targets),
     frequency |-> Frequency, reference |-> reference]

\* target_array - target_array[0, :, :] with the first antenna's row taken
\* for the first target's.
RelativeToBoresightMutC9(target_array) ==
    [t \in DOMAIN target_array |->
        [a \in DOMAIN target_array[t] |->
            <<target_array[t][a][1] - target_array[t][1][1],
              target_array[t][a][2] - target_array[t][1][2]>>]]

\* target_array - target_array[-1, :, :]: the last target's row taken for
\* the first target's.
RelativeToBoresightMutC8(target_array) ==
    [t \in DOMAIN target_array |->
        [a \in DOMAIN target_array[t] |->
            <<target_array[t][a][1] - target_array[Len(target_array)][a][1],
              target_array[t][a][2] - target_array[Len(target_array)][a][2]>>]]

\* target_array - target_array[0, :, :]
RelativeToBoresight(target_array) ==
    [t \in DOMAIN target_array |->
        [a \in DOMAIN target_array[t] |->
            <<target_array[t][a][1] - target_array[1][a][1],
              target_array[t][a][2] - target_array[1][a][2]>>]]

\* No get_delay_polynomials call yet.
NoPolyCall ==
    [called |-> FALSE, args |-> <<>>, error |-> NoError, array |-> None,
     queries |-> <<>>]

\* DelayPolynomial.get_delay_polynomials(epoch, duration): what the call did.
get_delay_polynomials(self, epoch, duration) ==
    LET start == check_time(epoch)
        timestamp == <<start, start + duration>>
        target_array ==
            [t \in DOMAIN self.targets |->
                OnePolarisationFirstSample(
                    dict_to_ordered_list(Corrections(self.antennas, self.targets[t])))]
    IN  [called |-> TRUE, args |-> <<epoch, duration>>, error |-> NoError,
         array |-> Some(RelativeToBoresight(target_array)),
         queries |-> [t \in DOMAIN self.targets |->
                        [antennas |-> self.antennas, reference |-> self.reference,
                         frequency |-> self.frequency, target |-> self.targets[t],
                         timestamp |-> timestamp]]]

\* polynomials = dp.get_delay_polynomials(epoch, duration)
GetDelayPolynomials(epoch, duration) ==
    /\ dp # None
    /\ polyOut' = get_delay_polynomials(Get(dp), epoch, duration)
    /\ UNCHANGED <<widthLog, stepVars, gui, failed, dp, oracle, overlapVars, tilingVars, psfVars>>

(***************************************************************************)
(* Exceptions.  No statement of the module stands in a try statement, so   *)
(* an exception a collaborator raises leaves the operation that called it. *)
(* An operation of a fixed signature called with more arguments than it    *)
(* takes fails with TypeError before its first statement.                  *)
(***************************************************************************)
\* The exceptions a collaborator raises in the model.
Errors == {"ValueError", "TimeoutError"}

\* The precisions a caller asks for.
Precisions == {5, 10}

\* A call of a collaborator: the function called and its arguments.
ExternalCall(fn, args) == [fn |-> fn, args |-> args]

\* An operation that calls the failing collaborator a second time before it
\* gives up.
UncaughtMutC15(op, args, calls, at, e) ==
    [op |-> op, args |-> args, at |-> at,
     calls |-> SubSeq(calls, 1, at) \o <<calls[at]>>,
     raised |-> e, error |-> e, returned |-> None]

\* The operation op, called with args, whose external calls would be
\* `calls` in this order, when the call at position `at` raises e: the calls
\* up to that one are made, e leaves the operation, which returns nothing.
Uncaught(op, args, calls, at, e) ==
    [op |-> op, args |-> args, at |-> at, calls |-> SubSeq(calls, 1, at),
     raised |-> e, error |-> e, returned |-> None]

\* def generate_nbeams_tiling(beam_shape, beam_num, overlap = 0.5) called
\* with a fourth argument: TypeError, and no statement of the body runs.
TooManyArguments(op, args) ==
    [op |-> op, args |-> args, at |-> 0, calls |-> <<>>,
     raised |-> NoError, error |-> "TypeError", returned |-> None]

\* generate_nbeams_tiling(shapes[s], beam_num, overlap, precision)
GenerateNbeamsTilingWithPrecision(s, beam_num, overlap, precision) ==
    /\ s \in DOMAIN shapes
    /\ failed' = Some(TooManyArguments("generate_nbeams_tiling",
                                       <<s, beam_num, overlap, precision>>))
    /\ UNCHANGED <<widthLog, stepVars, gui, overlapVars, tilingVars, psfVars, delayVars>>

\* generate_nbeams_tiling(shapes[s], beam_num, overlap), ellipseCompact
\* raising e.
GenerateNbeamsTilingFails(s, beam_num, overlap, e) ==
    /\ s \in DOMAIN shapes
    /\ last' = Some(WidthCall(s, overlap))
    /\ LET call == CompactCall(s, beam_num, overlap, 0, 0)
       IN  failed' = Some(Uncaught("generate_nbeams_tiling",
                                   <<s, beam_num, overlap>>,
                                   <<ExternalCall(call.fn, call.args)>>, 1, e))
    /\ UNCHANGED <<widthLog, stepVars, gui, shapes, tilings, packCalls, ovCall, overlapVars, psfVars,
                   delayVars>>

\* generate_radius_tiling(shapes[s], tiling_radius, overlap), ellipseGrid
\* raising e.
GenerateRadiusTilingFails(s, tiling_radius, overlap, e) ==
    /\ s \in DOMAIN shapes
    /\ last' = Some(WidthCall(s, overlap))
    /\ LET call == GridCall(s, tiling_radius, overlap, 0)
       IN  failed' = Some(Uncaught("generate_radius_tiling",
                                   <<s, tiling_radius, overlap>>,
                                   <<ExternalCall(call.fn, call.args)>>, 1, e))
    /\ UNCHANGED <<widthLog, stepVars, gui, shapes, tilings, packCalls, ovCall, overlapVars, psfVars,
                   delayVars>>

\* tilings[t].calculate_overlap(mode, new_beam_shape), calculateBeamOverlaps
\* raising e.
CalculateOverlapFails(t, mode, new_beam_shape, e) ==
    /\ tilings[t] # None
    /\ LET call == OverlapCall(t, mode, new_beam_shape, "calculate_overlap", <<>>)
       IN  failed' = Some(Uncaught("calculate_overlap", call.request,
                                   <<ExternalCall("calculateBeamOverlaps",
                                                  call.args)>>, 1, e))
    /\ UNCHANGED <<widthLog, stepVars, gui, overlapVars, tilingVars, psfVars, delayVars>>

\* The observation engine after the first `done` of the calls setBoreSight,
\* setObserveTime and createContour.
ObservationAfterCalls(observation, bore_sight, time, antennas, done) ==
    [observation EXCEPT
        !.boreSight = IF done >= 1 THEN Some(bore_sight) ELSE @,
        !.observeTime = IF done >= 2 THEN Some(time) ELSE @,
        !.contour = IF done >= 3
                    THEN Some([boreSight |-> bore_sight, observeTime |-> time,
                               antennas |-> antennas])
                    ELSE @]

\* sim.get_beam_shape(source, time) on a PsfSim of 3 or more antennas, the
\* engine call at position `at` raising e.
GetBeamShapeFails(source, time, at, e) ==
    /\ sim # None
    /\ Get(sim).antennas # None
    /\ ~TooFewAntennas(Get(Get(sim).antennas))
    /\ LET antennas == Get(Get(sim).antennas)
           bore_sight == check_source(source)
           f == Uncaught("get_beam_shape", <<source, time>>,
                         EngineCalls(bore_sight, time, antennas), at, e)
       IN  /\ failed' = Some(f)
           /\ psfOut' = [called |-> TRUE, args |-> f.args, error |-> f.error,
                         shape |-> f.returned, calls |-> f.calls]
           /\ sim' = Some([Get(sim) EXCEPT
                             !.observation =
                                ObservationAfterCalls(@, bore_sight, time,
                                                      antennas, at - 1)])
    /\ UNCHANGED <<widthLog, stepVars, gui, overlapVars, tilingVars, delayVars>>

\* dp.get_delay_polynomials(epoch, duration), dc.corrections raising e for
\* the target at position `at`.
GetDelayPolynomialsFails(epoch, duration, at, e) ==
    /\ dp # None
    /\ at \in DOMAIN Get(dp).targets
    /\ LET queries == get_delay_polynomials(Get(dp), epoch, duration).queries
           f == Uncaught("get_delay_polynomials", <<epoch, duration>>,
                         [i \in DOMAIN queries |->
                            ExternalCall("corrections", <<queries[i]>>)],
                         at, e)
       IN  /\ failed' = Some(f)
           /\ polyOut' = [called |-> TRUE, args |-> f.args, error |-> f.error,
                          array |-> f.returned,
                          queries |-> [i \in DOMAIN f.calls |-> f.calls[i].args[1]]]
    /\ UNCHANGED <<widthLog, stepVars, gui, dp, oracle, overlapVars, tilingVars, psfVars>>

(***************************************************************************)
(* get_beam_shape step by step: two PsfSim objects whose calls on the      *)
(* observation engine interleave.  The engine computes a contour from the  *)
(* boresight and time it holds when createContour is called; its getters   *)
(* answer from what it holds when they are called.                         *)
(***************************************************************************)
StepIds == {1, 2}

\* The sources the step-by-step calls are made with.
StepSources == {s \in Sources : s.kind = "literal"}

\* PsfSim.observation taken as an attribute of the class: every PsfSim
\* holds the one engine.
EngineOfMutC23(i) == 1

\* The identity of the engine PsfSim number i holds: __init__ constructs an
\* InterferometryObservation and assigns it to self.observation, so every
\* PsfSim holds an engine of its own.
EngineOf(i) == i

\* The PsfSim objects: number i with MaxAntennas + 1 - i antennas given as
\* rows, idle and without a result.  `frame` holds the arguments and locals
\* of a get_beam_shape call on its way and the boresight and time the engine
\* held when the call began, `pc` the engine call it makes next.
NoFrame ==
    [source |-> None, time |-> None, bore_sight |-> None, axes |-> None,
     horizon |-> None, before |-> None]
StepPsfSim(i) ==
    [observation |-> EngineOf(i),
     antennas |-> check_antennas("literal", MaxAntennas + 1 - i),
     pc |-> "idle", frame |-> NoFrame, result |-> None]

\* createContour(antennas): the contour of the antennas for the boresight
\* and time the engine holds.
createContour(observation, antennas) ==
    [observation EXCEPT
        !.contour = Some([boreSight |-> Get(observation.boreSight),
                          observeTime |-> Get(observation.observeTime),
                          antennas |-> antennas])]

\* getBeamAxis(): the axes and the angle of the beam of a contour, each
\* known by the contour it was fitted to.
BeamAxisOf(contour) ==
    <<[axis |-> "H", of |-> contour], [axis |-> "V", of |-> contour],
      [axis |-> "angle", of |-> contour]>>

\* np.rad2deg(getHorizontal()): the horizontal direction of a boresight at
\* a time, known by the two.
HorizonOf(boreSight, observeTime) ==
    [boreSight |-> boreSight, observeTime |-> observeTime]

\* Lines 102-104 of get_beam_shape(source, time) on PsfSim i: the antenna
\* check passes and check_source gives the boresight.  A PsfSim runs one
\* call at a time.
CallGetBeamShape(i, source, time) ==
    /\ psfs[i].pc = "idle"
    /\ ~TooFewAntennas(Get(psfs[i].antennas))
    /\ psfs' = [psfs EXCEPT
                  ![i].pc = "setBoreSight",
                  ![i].result = None,
                  ![i].frame = [NoFrame EXCEPT
                                  !.source = Some(source), !.time = Some(time),
                                  !.bore_sight = Some(check_source(source)),
                                  !.before =
                                     Some(<<engines[psfs[i].observation].boreSight,
                                            engines[psfs[i].observation].observeTime>>)]]
    /\ UNCHANGED <<widthLog, engines, gui, failed, overlapVars, tilingVars, psfVars, delayVars>>

\* self.observation.setBoreSight(bore_sight)
StepSetBoreSight(i) ==
    /\ psfs[i].pc = "setBoreSight"
    /\ engines' = [engines EXCEPT
                     ![psfs[i].observation].boreSight = psfs[i].frame.bore_sight]
    /\ psfs' = [psfs EXCEPT ![i].pc = "setObserveTime"]
    /\ UNCHANGED <<widthLog, gui, failed, overlapVars, tilingVars, psfVars, delayVars>>

\* self.observation.setObserveTime(time)
StepSetObserveTime(i) ==
    /\ psfs[i].pc = "setObserveTime"
    /\ engines' = [engines EXCEPT
                     ![psfs[i].observation].observeTime = psfs[i].frame.time]
    /\ psfs' = [psfs EXCEPT ![i].pc = "createContour"]
    /\ UNCHANGED <<widthLog, gui, failed, overlapVars, tilingVars, psfVars, delayVars>>

\* self.observation.createContour(self.antennas)
StepCreateContour(i) ==
    /\ psfs[i].pc = "createContour"
    /\ engines' = [engines EXCEPT
                     ![psfs[i].observation] =
                        createContour(@, Get(psfs[i].antennas))]
    /\ psfs' = [psfs EXCEPT ![i].pc = "getBeamAxis"]
    /\ UNCHANGED <<widthLog, gui, failed, overlapVars, tilingVars, psfVars, delayVars>>

\* axisH, axisV, angle = self.observation.getBeamAxis()
StepGetBeamAxis(i) ==
    /\ psfs[i].pc = "getBeamAxis"
    /\ psfs' = [psfs EXCEPT
                  ![i].pc = "getHorizontal",
                  ![i].frame.axes =
                     Some(BeamAxisOf(Get(engines[psfs[i].observation].contour)))]
    /\ UNCHANGED <<widthLog, engines, gui, failed, overlapVars, tilingVars, psfVars, delayVars>>

\* horizon = np.rad2deg(self.observation.getHorizontal())
StepGetHorizontal(i) ==
    /\ psfs[i].pc = "getHorizontal"
    /\ LET observation == engines[psfs[i].observation]
       IN  psfs' = [psfs EXCEPT
                      ![i].pc = "getPointSpreadFunction",
                      ![i].frame.horizon =
                         Some(HorizonOf(Get(observation.boreSight),
                                        Get(observation.observeTime)))]
    /\ UNCHANGED <<widthLog, engines, gui, failed, overlapVars, tilingVars, psfVars, delayVars>>

\* psf = self.observation.getPointSpreadFunction() and the return of the
\* BeamShape.  The result keeps the arguments of the call, what the engine
\* held when the call began, and which other PsfSim objects were in the
\* middle of a call when it returned.
StepGetPointSpreadFunction(i) ==
    /\ psfs[i].pc = "getPointSpreadFunction"
    /\ LET observation == engines[psfs[i].observation]
           frame == psfs[i].frame
           axes == Get(frame.axes)
           psf == Get(observation.contour)
       IN  psfs' = [psfs EXCEPT
                      ![i].pc = "idle",
                      ![i].frame = NoFrame,
                      ![i].result =
                         Some([args |-> <<Get(frame.source), Get(frame.time)>>,
                               before |-> Get(frame.before),
                               during |-> {j \in StepIds \ {i} : psfs[j].pc # "idle"},
                               shape |-> BeamShapeObject(
                                            axes[1], axes[2], axes[3], psf,
                                            Get(psfs[i].antennas),
                                            Get(frame.bore_sight),
                                            observation.reference,
                                            Get(frame.horizon))])]
    /\ UNCHANGED <<widthLog, engines, gui, failed, overlapVars, tilingVars, psfVars, delayVars>>

(***************************************************************************)
(* The Pack button of the GUI (ui.py).  The attributes state, newData and  *)
(* fittedImage of the function onClickedPackButton2 are None while the     *)
(* function has no such attribute, Some(value) afterwards.  `label` is the *)
(* image shown, `packing` the arguments of the last ellipseCompact call    *)
(* that returned; `packs` counts the ellipseCompact calls that returned    *)
(* since the last resetPackState, `clicks` the Pack clicks and `resets`    *)
(* the resetPackState calls.  The handlers hold no try statement: an       *)
(* exception a collaborator raises leaves the handler at that call, with   *)
(* the assignments made so far, and the event loop goes on.                *)
(***************************************************************************)
MaxClicks == 3
MaxResets == 2

\* ellipseCompact(400, axisH2, axisV2, angle2, 10)
GuiBeamNumber == 400
GuiPackPrecision == 10

\* What observation.getBeamAxis() answers a click with: None or the axes.
SizeInfos == {None} \cup {Some(axes) : axes \in BeamAxes}

\* What observation.getBoreSight() answers a click with: [] or a boresight.
Centers == {<<>>, <<10, 20>>}

\* The numbers of rows of the coordinate list updateCountour finds.
RowCounts == {1, 2}

\* The GUI when its window opens: the label shows the blank image and
\* onClickedPackButton2 has no attributes.
NewGui ==
    [state |-> None, newData |-> None, fittedImage |-> None, label |-> "blank",
     packing |-> None, packs |-> 0, clicks |-> 0, resets |-> 0]

\* No call of a handler raises.
NoRaise == 0

\* The position of the first call of fn in a sequence of calls.
PositionIn(calls, fn) ==
    CHOOSE i \in DOMAIN calls :
        /\ calls[i].fn = fn
        /\ \A j \in DOMAIN calls : calls[j].fn = fn => i <= j

\* The calls updateCountour makes on the engine, in the order of its
\* statements: setAutoZoom(False) when the Shift key is held (line 295), and
\* with two rows or more in the coordinate list createContour,
\* getHorizontal, getProjectedBaselines and getBeamSizeFactor (lines 309,
\* 312, 314, 316); resetPackState() stands between the last two.
UpdateCalls(rowCount, shift) ==
    (IF shift THEN <<ExternalCall("setAutoZoom", <<FALSE>>)>> ELSE <<>>)
    \o (IF rowCount < 2 THEN <<>>
        ELSE <<ExternalCall("createContour", <<>>),
               ExternalCall("getHorizontal", <<>>),
               ExternalCall("getProjectedBaselines", <<>>),
               ExternalCall("getBeamSizeFactor", <<>>)>>)

\* The calls onClickedPackButton2 makes on its collaborators when it fits
\* and packs the beam, in the order of its statements (lines 435, 440, 441,
\* 442, 451, 454, 460, 466, 468, 479, 496), the engine having answered
\* getBeamAxis with sizeInfo.
PackCalls(sizeInfo) ==
    <<ExternalCall("getBaselinesNumber", <<>>),
      ExternalCall("getBoreSight", <<>>),
      ExternalCall("getImageLength", <<>>),
      ExternalCall("getBeamAxis", <<>>),
      ExternalCall("getImageDensity", <<>>),
      ExternalCall("plotBeamFit", <<sizeInfo>>),
      ExternalCall("ellipseCompact", <<GuiBeamNumber, sizeInfo, GuiPackPrecision>>),
      ExternalCall("ellipseGrid", <<>>),
      ExternalCall("plotPackedBeam", <<"primaryPack.png">>),
      ExternalCall("plotPackedBeam", <<sizeInfo>>),
      ExternalCall("calculateBeamOverlaps", <<sizeInfo>>)>>

\* resetPackState()
resetPackState(g) ==
    [g EXCEPT !.newData = Some(TRUE), !.state = Some(0),
              !.fittedImage = Some(None), !.packs = 0, !.resets = @ + 1]

\* updateCountour() with rowCount rows in the coordinate list and the Shift
\* key held or not, the call at position `raises` of UpdateCalls raising
\* (NoRaise: none does).  With Shift held the engine's auto zoom is switched
\* off first.  With fewer than two rows the blank image is shown and the
\* function returns.  Else the contour is created, then shown, and after
\* getHorizontal and getProjectedBaselines returned the pack state is reset.
updateCountour(g, rowCount, shift, raises) ==
    LET calls == UpdateCalls(rowCount, shift)
        RaisedIn(fns) == raises # NoRaise /\ calls[raises].fn \in fns
    IN  IF RaisedIn({"setAutoZoom"}) THEN g
        ELSE IF rowCount < 2 THEN [g EXCEPT !.label = "blank"]
        ELSE IF RaisedIn({"createContour"}) THEN g
        ELSE IF RaisedIn({"getHorizontal", "getProjectedBaselines"})
        THEN [g EXCEPT !.label = "contour"]
        ELSE resetPackState([g EXCEPT !.label = "contour"])

\* The hasattr tests of onClickedPackButton2: an attribute the function does
\* not have yet is set to state 0, fittedImage None, newData True.
WithDefaults(g) ==
    [g EXCEPT !.state = IF @ = None THEN Some(0) ELSE @,
              !.fittedImage = IF @ = None THEN Some(None) ELSE @,
              !.newData = IF @ = None THEN Some(TRUE) ELSE @]

\* onClickedPackButton2(), the engine answering getBeamAxis with sizeInfo
\* and getBoreSight with center, and the call at position `raises` of
\* PackCalls raising (NoRaise: none does).  In state 1 the fitted image (or,
\* without one, the contour) is shown again and state becomes 0; else
\* without new data the packed image is shown again and state becomes 1.
\* Else the engine is asked for the boresight and the beam axes, and the
\* handler returns if it has none; the beam is fitted and fittedImage
\* assigned and shown (lines 454-459); ellipseCompact packs the beam (460);
\* the packings are plotted (466-479) and the packed image shown; and only
\* then state becomes 1 and newData False (482-483), before the overlaps
\* are calculated (496).
onClickedPackButton2(gui0, sizeInfo, center, raises) ==
    LET g == [WithDefaults(gui0) EXCEPT !.clicks = @ + 1]
        calls == PackCalls(sizeInfo)
        Raised(from, to) ==
            /\ raises # NoRaise
            /\ PositionIn(calls, from) <= raises
            /\ raises <= PositionIn(calls, to)
    IN  IF g.state = Some(1)
        THEN [g EXCEPT !.state = Some(0),
                       !.label = IF Get(g.fittedImage) # None THEN "fit"
                                 ELSE "contour"]
        ELSE IF g.newData = Some(FALSE)
        THEN [g EXCEPT !.state = Some(1), !.label = "pack"]
        ELSE IF Raised("getBaselinesNumber", "getBeamAxis") THEN g
        ELSE IF sizeInfo = None THEN g
        ELSE IF center = <<>> THEN g
        ELSE IF Raised("getImageDensity", "plotBeamFit") THEN g
        ELSE
          LET axes == Get(sizeInfo)
              fitted == [g EXCEPT !.fittedImage = Some(Some(axes)),
                                  !.label = "fit"]
              packed == [fitted EXCEPT
                           !.packing = Some([beam_number |-> GuiBeamNumber,
                                             axisH |-> axes[1],
                                             axisV |-> axes[2],
                                             angle |-> axes[3],
                                             precision |-> GuiPackPrecision]),
                           !.packs = @ + 1]
          IN  IF Raised("ellipseCompact", "ellipseCompact") THEN fitted
              ELSE IF raises # NoRaise /\ raises < PositionIn(calls, "calculateBeamOverlaps")
              THEN packed
              ELSE [packed EXCEPT !.label = "pack", !.state = Some(1),
                                  !.newData = Some(FALSE)]

\* A click on the Pack button whose handler returns.
ClickPack(sizeInfo, center) ==
    /\ gui.clicks < MaxClicks
    /\ gui' = onClickedPackButton2(gui, sizeInfo, center, NoRaise)
    /\ UNCHANGED <<widthLog, stepVars, failed, overlapVars, tilingVars, psfVars, delayVars>>

\* A click on the Pack button that takes the handler to the call at position
\* `at` of PackCalls, which raises e: the click was made in state 0 with new
\* data, and the calls from getImageDensity on are reached only when the
\* engine has beam axes and a boresight.
ClickPackFails(sizeInfo, center, at, e) ==
    /\ gui.clicks < MaxClicks
    /\ WithDefaults(gui).state = Some(0)
    /\ WithDefaults(gui).newData = Some(TRUE)
    /\ at \in DOMAIN PackCalls(sizeInfo)
    /\ \/ at <= PositionIn(PackCalls(sizeInfo), "getBeamAxis")
       \/ sizeInfo # None /\ center # <<>>
    /\ gui' = onClickedPackButton2(gui, sizeInfo, center, at)
    /\ failed' = Some(Uncaught("onClickedPackButton2", <<>>,
                               PackCalls(sizeInfo), at, e))
    /\ UNCHANGED <<widthLog, stepVars, overlapVars, tilingVars, psfVars, delayVars>>

\* onRotationChanged() or onPackSizeChanged(): resetPackState() and nothing
\* else.
ResetPackState ==
    /\ gui.resets < MaxResets
    /\ gui' = resetPackState(gui)
    /\ UNCHANGED <<widthLog, stepVars, failed, overlapVars, tilingVars, psfVars, delayVars>>

\* updateCountour(), called when the coordinates, the boresight, the time or
\* an option of the observation changed, and returning.
UpdateCountour(rowCount, shift) ==
    /\ rowCount >= 2 => gui.resets < MaxResets
    /\ gui' = updateCountour(gui, rowCount, shift, NoRaise)
    /\ UNCHANGED <<widthLog, stepVars, failed, overlapVars, tilingVars, psfVars, delayVars>>

\* updateCountour(), the call at position `at` of its calls raising e.
UpdateCountourFails(rowCount, shift, at, e) ==
    /\ at \in DOMAIN UpdateCalls(rowCount, shift)
    /\ UpdateCalls(rowCount, shift)[at].fn = "getBeamSizeFactor"
         => gui.resets < MaxResets
    /\ gui' = updateCountour(gui, rowCount, shift, at)
    /\ failed' = Some(Uncaught("updateCountour", <<>>,
                               UpdateCalls(rowCount, shift), at, e))
    /\ UNCHANGED <<widthLog, stepVars, overlapVars, tilingVars, psfVars, delayVars>>

(***************************************************************************)
(* Idle values of the stages a specification leaves alone.                 *)
(***************************************************************************)
IdleOverlap == ov = None /\ fr = NoCall
IdleTiling  ==
    /\ shapes = <<>>
    /\ tilings = [t \in TilingRefs |-> None]
    /\ packCalls = [t \in TilingRefs |-> None]
    /\ ovCall = None /\ last = None
IdlePsf     == sim = None /\ psfOut = NoShapeCall
IdleDelay   == dp = None /\ oracle = None /\ polyOut = NoPolyCall
NoFailure   == failed = None
IdleSteps   == engines = <<>> /\ psfs = <<>>
IdleGui     == gui = None
IdleLog     == widthLog = <<>>
Idle        == NoFailure /\ IdleSteps /\ IdleGui /\ IdleLog

(***************************************************************************)
(* The Overlap stage on its own.                                           *)
(***************************************************************************)
InitOverlap == IdleOverlap /\ IdleTiling /\ IdlePsf /\ IdleDelay /\ Idle

NextOverlap == NewOverlap \/ CalculateFractions

SpecOverlap == InitOverlap /\ [][NextOverlap]_vars

(***************************************************************************)
(* The Tiling stage: two BeamShapes, the generators and the operations of  *)
(* a Tiling.                                                               *)
(***************************************************************************)
\* The BeamShapes of the Tiling stage.
TilingShapes ==
    <<BeamShapeObject(2000, 1000, 30, "psf1", 3, <<10, 20>>, "ref", <<1, 2>>),
      BeamShapeObject(1500, 1500, 0, "psf2", 4, <<30, 40>>, "ref", <<3, 4>>)>>

InitTiling ==
    /\ IdleOverlap /\ IdlePsf /\ IdleDelay /\ Idle
    /\ shapes = TilingShapes
    /\ tilings = [t \in TilingRefs |-> None]
    /\ packCalls = [t \in TilingRefs |-> None]
    /\ ovCall = None
    /\ last = None

\* The generation of Tilings on one Tiling reference, for every overlap
\* level and every answer of the packing engine.
NextTiling ==
    \/ \E s \in ShapeIds, overlap \in Overlaps : WidthAtOverlap(s, overlap)
    \/ \E s \in ShapeIds, beam_num \in 1..MaxBeams, overlap \in TilingOverlaps,
          k \in 0..MaxBeams, r \in 0..MaxRadius :
            GenerateNbeamsTiling("t1", s, beam_num, overlap, k, r)
    \/ \E s \in ShapeIds, tiling_radius \in 0..MaxRadius,
          overlap \in TilingOverlaps, k \in 0..MaxBeams :
            GenerateRadiusTiling("t1", s, tiling_radius, overlap, k)
    \/ GetEquatorialCoordinates("t1")

SpecTiling == InitTiling /\ [][NextTiling]_vars

(***************************************************************************)
(* The overlap calculation on one Tiling reference: Tilings generated at   *)
(* overlap 0.5, the packing engine answering with any number of centers,   *)
(* and calculate_overlap and plot_sky_pattern called on them.  The last    *)
(* calculateBeamOverlaps call stays the last one when the reference gets   *)
(* a new Tiling.                                                           *)
(***************************************************************************)
NextCalculate ==
    \/ \E s \in ShapeIds, beam_num \in 1..MaxBeams, k \in 0..MaxBeams :
         GenerateNbeamsTiling("t1", s, beam_num, 50, k, 1)
    \/ \E s \in ShapeIds, tiling_radius \in 0..MaxRadius, k \in 0..MaxBeams :
         GenerateRadiusTiling("t1", s, tiling_radius, 50, k)
    \/ \E mode \in Modes, metrics \in OverlapGrids,
          new_beam_shape \in {None} \cup {Some(s) : s \in ShapeIds} :
            CalculateOverlap("t1", mode, new_beam_shape, metrics)
    \/ \E metrics \in OverlapGrids : PlotSkyPattern("t1", metrics)
    \/ GetEquatorialCoordinates("t1")

SpecCalculate == InitTiling /\ [][NextCalculate]_vars

(***************************************************************************)
(* Two Tilings: the operations of the Tiling stage on two references, the  *)
(* generators at overlap 0.5 and the packing engine answering with as many *)
(* centers as asked for.                                                   *)
(***************************************************************************)
NextSharing ==
    \/ \E s \in ShapeIds, overlap \in ValidOverlaps : WidthAtOverlap(s, overlap)
    \/ \E t \in TilingRefs, s \in ShapeIds, beam_num \in 1..MaxBeams :
         GenerateNbeamsTiling(t, s, beam_num, 50, beam_num, 1)
    \/ \E t \in TilingRefs, s \in ShapeIds, tiling_radius \in 0..MaxRadius :
         GenerateRadiusTiling(t, s, tiling_radius, 50, 1)
    \/ \E t \in TilingRefs, mode \in Modes, metrics \in OverlapGrids,
          new_beam_shape \in {None} \cup {Some(s) : s \in ShapeIds} :
         CalculateOverlap(t, mode, new_beam_shape, metrics)
    \/ \E t \in TilingRefs, metrics \in OverlapGrids : PlotSkyPattern(t, metrics)

SpecSharing == InitTiling /\ [][NextSharing]_vars

(***************************************************************************)
(* Repeated width_at_overlap calls on the BeamShapes, with a Tiling        *)
(* generated and its overlap calculated at any time in between.            *)
(***************************************************************************)
\* The overlap levels of the repeated calls.
LoggedOverlaps == {25, 50}

NextWidth ==
    \/ \E s \in ShapeIds, overlap \in LoggedOverlaps : WidthAtOverlapLogged(s, overlap)
    \/ \E s \in ShapeIds : GenerateNbeamsTiling("t1", s, 1, 50, 1, 1)
    \/ \E metrics \in OverlapGrids, new_beam_shape \in {None} \cup {Some(s) : s \in ShapeIds} :
         CalculateOverlap("t1", "counter", new_beam_shape, metrics)

SpecWidth == InitTiling /\ [][NextWidth]_vars

(***************************************************************************)
(* The PsfSim stage.                                                       *)
(***************************************************************************)
InitPsf == IdleOverlap /\ IdleTiling /\ IdlePsf /\ IdleDelay /\ Idle

NextPsf ==
    \/ \E kind \in AntennaKinds, n \in 0..MaxAntennas,
          frequencies \in FrequencyLists : NewPsfSim(kind, n, frequencies)
    \/ \E source \in Sources, time \in Times, axes \in BeamAxes,
          horizontal \in Horizontals :
            GetBeamShape(source, time, axes, horizontal)

SpecPsf == InitPsf /\ [][NextPsf]_vars

(***************************************************************************)
(* Claims about the PsfSim stage (SpecPsf).                                *)
(***************************************************************************)
\* The number of antennas a PsfSim holds.
HeldAntennas(self) == IF self.antennas = None THEN 0 ELSE Len(Get(self.antennas))

\* C6: get_beam_shape fails with InsufficientAntennasError exactly when the
\* PsfSim holds fewer than 3 antennas; with 3 or more the check passes and a
\* BeamShape is returned.
C6_InsufficientAntennasError ==
    (sim # None /\ psfOut.called) =>
        IF HeldAntennas(Get(sim)) < 3
        THEN psfOut.error = "InsufficientAntennasError" /\ psfOut.shape = None
        ELSE psfOut.error = NoError /\ psfOut.shape # None

\* C13: an antenna list or a source that is neither of a literal form nor a
\* katpoint object results in InvalidInputTypeError: no PsfSim holds None for
\* its antennas, a get_beam_shape call with such a source fails with that
\* error before any engine call, and None is neither handed to the engine as
\* the boresight nor stored in a BeamShape.
C13_InvalidInputTypeError ==
    /\ sim # None => Get(sim).antennas # None
    /\ (psfOut.called /\ psfOut.args[1].kind = "other")
         => (/\ psfOut.error = "InvalidInputTypeError"
             /\ psfOut.shape = None
             /\ psfOut.calls = <<>>)
    /\ sim # None => Get(sim).observation.boreSight # Some(None)
    /\ psfOut.shape # None => Get(psfOut.shape).bore_sight # None

\* C14: every BeamShape get_beam_shape returns has axisH >= axisV >= 0,
\* whatever triple getBeamAxis answered with.
C14_AxesOrdered ==
    psfOut.shape # None =>
        /\ Get(psfOut.shape).axisH >= Get(psfOut.shape).axisV
        /\ Get(psfOut.shape).axisV >= 0

\* The names of the engine methods called, in call order.
CalledMethods(calls) == [i \in DOMAIN calls |-> calls[i].fn]

\* C17: a successful get_beam_shape call calls setBoreSight, setObserveTime,
\* createContour, getBeamAxis, getHorizontal and getPointSpreadFunction in
\* this order, each once; the bore_sight of the BeamShape it returns is the
\* value it passed to setBoreSight, and the psf it returns is computed from
\* the boresight, time and antennas set in this call.
C17_EngineCallOrder ==
    (psfOut.called /\ psfOut.error = NoError) =>
        /\ CalledMethods(psfOut.calls)
             = <<"setBoreSight", "setObserveTime", "createContour",
                 "getBeamAxis", "getHorizontal", "getPointSpreadFunction">>
        /\ psfOut.shape # None
        /\ Get(psfOut.shape).bore_sight = psfOut.calls[1].args[1]
        /\ psfOut.calls[2].args[1] = psfOut.args[2]
        /\ Get(psfOut.shape).psf.boreSight = psfOut.calls[1].args[1]
        /\ Get(psfOut.shape).psf.observeTime = psfOut.args[2]
        /\ Get(psfOut.shape).psf.antennas = psfOut.calls[3].args[1]

\* C17's case: a successful call for the source [30, 40] at time 2 on a
\* PsfSim of three antennas.
C17_Witness ==
    /\ sim # None /\ HeldAntennas(Get(sim)) = 3
    /\ psfOut.called /\ psfOut.error = NoError
    /\ psfOut.args = <<[kind |-> "literal", value |-> <<30, 40>>], 2>>
    /\ Len(psfOut.calls) = 6
    /\ Get(psfOut.shape).bore_sight = Some(<<30, 40>>)
    /\ Get(sim).observation.boreSight = Some(Some(<<30, 40>>))

\* C18: a get_beam_shape call on a PsfSim holding fewer than 3 antennas
\* fails, calls no method of the observation engine, leaves the PsfSim and its
\* engine (boresight, time, contour) as they were and produces no BeamShape.
C18_FailedCallLeavesEngine ==
    [][(/\ sim # None
        /\ Get(sim).antennas # None
        /\ Len(Get(Get(sim).antennas)) < 3
        /\ psfOut'.called)
       => (/\ psfOut'.error # NoError
           /\ psfOut'.calls = <<>>
           /\ psfOut'.shape = None
           /\ sim' = sim)]_vars

\* C18's case: a call on a PsfSim of two antennas has failed.
C18_Witness ==
    /\ sim # None /\ HeldAntennas(Get(sim)) = 2 /\ Get(sim).antennas # None
    /\ psfOut.called /\ psfOut.error # NoError
    /\ psfOut.args[1].kind = "literal"
    /\ Get(sim).observation.boreSight = None
    /\ Get(sim).observation.contour = None

(***************************************************************************)
(* The DelayPolynomial stage: a DelayPolynomial built from any antenna     *)
(* list and target list, and an oracle with any answers.                   *)
(***************************************************************************)
InitDelay ==
    /\ IdleOverlap /\ IdleTiling /\ IdlePsf /\ Idle
    /\ oracle \in [Directions \X AntennaIds -> DelayPairs]
    /\ \E antennas \in AntennaLists, q \in DirectionLists,
          form \in {"katpoint", "literal"} :
            dp = Some(DelayPolynomialObject(antennas, TargetList(form, q), "ref"))
    /\ polyOut = NoPolyCall

NextDelay ==
    \E epoch \in Epochs, duration \in Durations :
        GetDelayPolynomials(epoch, duration)

SpecDelay == InitDelay /\ [][NextDelay]_vars

(***************************************************************************)
(* Exceptions: one of the three stages is set up, and its operations run   *)
(* with collaborators that answer or raise.                                *)
(***************************************************************************)
\* A PsfSim of 3 or more antennas.
PsfReady ==
    /\ \E kind \in {"literal", "katpoint"}, n \in 3..MaxAntennas :
          sim = Some(PsfSimObject(kind, n, <<1284>>))
    /\ psfOut = NoShapeCall

\* A DelayPolynomial of two antennas, and an oracle that answers the same
\* for every antenna and direction.
DelayReady ==
    /\ \E q \in DirectionLists :
          dp = Some(DelayPolynomialObject(<<1, 2>>, TargetList("katpoint", q), "ref"))
    /\ oracle = [x \in Directions \X AntennaIds |-> <<3, 1>>]
    /\ polyOut = NoPolyCall

\* The two BeamShapes of the Tiling stage and no Tiling yet.
TilingReady ==
    /\ shapes = TilingShapes
    /\ tilings = [t \in TilingRefs |-> None]
    /\ packCalls = [t \in TilingRefs |-> None]
    /\ ovCall = None
    /\ last = None

InitErrors ==
    /\ IdleOverlap /\ Idle
    /\ \/ TilingReady /\ IdlePsf /\ IdleDelay
       \/ IdleTiling /\ PsfReady /\ IdleDelay
       \/ IdleTiling /\ IdlePsf /\ DelayReady

\* The operations of the stage set up, the generators at overlap 0.5.
NextErrors ==
    \/ \E s \in ShapeIds, beam_num \in 1..MaxBeams, r \in 0..MaxRadius :
         GenerateNbeamsTiling("t1", s, beam_num, 50, beam_num, r)
    \/ \E s \in ShapeIds, beam_num \in 1..MaxBeams, e \in Errors :
         GenerateNbeamsTilingFails(s, beam_num, 50, e)
    \/ \E s \in ShapeIds, beam_num \in 1..MaxBeams, precision \in Precisions :
         GenerateNbeamsTilingWithPrecision(s, beam_num, 50, precision)
    \/ \E s \in ShapeIds, tiling_radius \in 0..MaxRadius, e \in Errors :
         GenerateRadiusTilingFails(s, tiling_radius, 50, e)
    \/ \E mode \in Modes, e \in Errors,
          new_beam_shape \in {None} \cup {Some(s) : s \in ShapeIds} :
         CalculateOverlapFails("t1", mode, new_beam_shape, e)
    \/ \E source \in Sources, time \in Times :
         GetBeamShape(source, time, <<2000, 1000, 30>>, <<1571, 785>>)
    \/ \E source \in Sources, at \in 1..6, e \in Errors :
         GetBeamShapeFails(source, 2, at, e)
    \/ \E epoch \in Epochs, duration \in Durations :
         GetDelayPolynomials(epoch, duration)
    \/ \E epoch \in Epochs, at \in 1..MaxTargets, e \in Errors :
         GetDelayPolynomialsFails(epoch, 10, at, e)

SpecErrors == InitErrors /\ [][NextErrors]_vars

\* Two PsfSim objects constructed, each with the engine its __init__ made;
\* their get_beam_shape calls run step by step in any interleaving.
InitInterleave ==
    /\ IdleOverlap /\ IdleTiling /\ IdlePsf /\ IdleDelay
    /\ NoFailure /\ IdleGui /\ IdleLog
    /\ psfs = [i \in StepIds |-> StepPsfSim(i)]
    /\ engines = [e \in {EngineOf(i) : i \in StepIds} |->
                     NewObservation(ReferenceAntenna, WaveLengths(<<1284>>))]

NextInterleave ==
    \/ \E i \in StepIds, source \in StepSources, time \in Times :
          CallGetBeamShape(i, source, time)
    \/ \E i \in StepIds : StepSetBoreSight(i)
    \/ \E i \in StepIds : StepSetObserveTime(i)
    \/ \E i \in StepIds : StepCreateContour(i)
    \/ \E i \in StepIds : StepGetBeamAxis(i)
    \/ \E i \in StepIds : StepGetHorizontal(i)
    \/ \E i \in StepIds : StepGetPointSpreadFunction(i)

SpecInterleave == InitInterleave /\ [][NextInterleave]_vars

\* The GUI after its window opened, under Pack clicks, resets and contour
\* updates in any order, with and without a collaborator raising.
InitPack ==
    /\ IdleOverlap /\ IdleTiling /\ IdlePsf /\ IdleDelay
    /\ NoFailure /\ IdleSteps /\ IdleLog
    /\ gui = NewGui

NextPack ==
    \/ \E sizeInfo \in SizeInfos, center \in Centers : ClickPack(sizeInfo, center)
    \/ \E sizeInfo \in SizeInfos, center \in Centers,
          at \in DOMAIN PackCalls(None), e \in Errors :
            ClickPackFails(sizeInfo, center, at, e)
    \/ ResetPackState
    \/ \E rowCount \in RowCounts, shift \in BOOLEAN : UpdateCountour(rowCount, shift)
    \/ \E rowCount \in RowCounts, shift \in BOOLEAN, e \in Errors :
          \E at \in DOMAIN UpdateCalls(rowCount, shift) :
             UpdateCountourFails(rowCount, shift, at, e)

SpecPack == InitPack /\ [][NextPack]_vars

(***************************************************************************)
(* Claims about exceptions (SpecErrors).                                   *)
(***************************************************************************)
\* C15: when a collaborator raises (the packing engine in a generator, the
\* overlap computation in calculate_overlap, the delay oracle in
\* get_delay_polynomials, the observation engine in get_beam_shape), the
\* exception that leaves the operation is the one raised, the failing call
\* was made once and nothing was called after it, and the operation returns
\* nothing: no Tiling is stored, no Overlap, no array, no BeamShape.
C15_ExternalErrorPropagates ==
    [][(failed' # None /\ failed' # failed /\ Get(failed').raised # NoError)
       => LET f == Get(failed')
          IN  /\ f.error = f.raised
              /\ Len(f.calls) = f.at
              /\ f.returned = None
              /\ tilings' = tilings /\ packCalls' = packCalls
              /\ ovCall' = ovCall
              /\ f.op = "get_delay_polynomials"
                   => (/\ polyOut'.error = f.raised
                       /\ polyOut'.array = None
                       /\ Len(polyOut'.queries) = f.at)
              /\ f.op = "get_beam_shape"
                   => (/\ psfOut'.error = f.raised
                       /\ psfOut'.shape = None
                       /\ Len(psfOut'.calls) = f.at)]_vars

\* C15's case: the oracle raised TimeoutError for the second of two targets.
C15_Witness ==
    /\ failed # None
    /\ Get(failed).op = "get_delay_polynomials"
    /\ Get(failed).at = 2 /\ Get(failed).raised = "TimeoutError"
    /\ Len(Get(dp).targets) = 2
    /\ polyOut.called /\ polyOut.error = "TimeoutError" /\ polyOut.array = None

\* C16: a generate_nbeams_tiling call that asks for a precision hands that
\* precision to ellipseCompact, so that two calls that differ in the
\* precision asked for differ in the precision handed on.
C16_PrecisionTunable ==
    (/\ failed # None
     /\ Get(failed).op = "generate_nbeams_tiling"
     /\ Len(Get(failed).args) = 4)
    => (/\ Get(failed).error # "TypeError"
        /\ Len(Get(failed).calls) = 1
        /\ Get(failed).calls[1].fn = "ellipseCompact"
        /\ Get(failed).calls[1].args[5] = Get(failed).args[4])

(***************************************************************************)
(* Claims about the DelayPolynomial stage (SpecDelay).                     *)
(***************************************************************************)
\* A get_delay_polynomials call has returned an array.
PolynomialsReturned ==
    dp # None /\ polyOut.called /\ polyOut.error = NoError /\ polyOut.array # None

\* C22: get_delay_polynomials(epoch, duration) asks the oracle once per
\* target, in the order of the targets, each time with the antenna list, the
\* reference and the frequency 1.4e9 of the DelayPolynomial and the window
\* (t, t + duration), t being epoch when it is an int or a float and its
\* conversion to epoch seconds otherwise; the array has one row per target,
\* row i relative to the boresight for target i; the call leaves the
\* DelayPolynomial as it was.
C22_OneQueryPerTarget ==
    [][(dp # None /\ polyOut' # polyOut /\ polyOut'.called
        /\ polyOut'.error = NoError)
       => LET self == Get(dp)
              epoch == polyOut'.args[1]
              duration == polyOut'.args[2]
              t == IF epoch.kind \in {"int", "float"}
                   THEN epoch.value[2]
                   ELSE datetimeToEpoch(epoch.value)
              queries == polyOut'.queries
              out == Get(polyOut'.array)
              ids == Sorted(Range(self.antennas))
          IN  /\ Len(queries) = Len(self.targets)
              /\ \A i \in DOMAIN queries :
                   /\ queries[i].target = self.targets[i]
                   /\ queries[i].antennas = self.antennas
                   /\ queries[i].reference = self.reference
                   /\ queries[i].frequency = 1400000000
                   /\ queries[i].timestamp = <<t, t + duration>>
              /\ Len(out) = Len(self.targets)
              /\ \A i \in DOMAIN out : \A a \in DOMAIN out[i] :
                   out[i][a][1] = oracle[<<self.targets[i].direction, ids[a]>>][1]
                                   - oracle[<<self.targets[1].direction, ids[a]>>][1]
              /\ dp' = dp]_vars

\* C22's case: a call with a datetime epoch and the duration 20 on two
\* targets of different directions.
C22_Witness ==
    /\ PolynomialsReturned
    /\ polyOut.args = <<[kind |-> "datetime", value |-> <<1, 40>>], 20>>
    /\ Len(polyOut.queries) = 2
    /\ polyOut.queries[1].target # polyOut.queries[2].target
    /\ polyOut.queries[2].timestamp = <<86440, 86460>>

\* C8: row 0 of the array get_delay_polynomials returns is zero in delay and
\* in rate for every antenna; when every target is the boresight target,
\* the whole array is zero.
C8_BoresightRowIsZero ==
    PolynomialsReturned =>
        LET out == Get(polyOut.array)
            targets == Get(dp).targets
        IN  /\ Len(out) = Len(targets)
            /\ Len(out[1]) = Len(Get(dp).antennas)
            /\ \A a \in DOMAIN out[1] : out[1][a] = <<0, 0>>
            /\ (\A t \in DOMAIN targets : targets[t] = targets[1])
                 => \A t \in DOMAIN out : \A a \in DOMAIN out[t] : out[t][a] = <<0, 0>>

\* C8's case: two targets of different directions, two antennas the oracle
\* answers differently for.
C8_Witness ==
    /\ PolynomialsReturned
    /\ Len(Get(dp).targets) = 2 /\ Get(dp).targets[1] # Get(dp).targets[2]
    /\ Len(Get(dp).antennas) = 2
    /\ Get(polyOut.array)[2][1] # <<0, 0>>
    /\ Get(polyOut.array)[2][1] # Get(polyOut.array)[2][2]

\* The antenna whose values stand at index a of each row: the a-th in
\* ascending order of the identifiers.
AntennaAtOutput(a) == Sorted(Range(Get(dp).antennas))[a]

\* C9: the value at [t][a][c] is the oracle's value for target t, the antenna
\* at index a and component c, minus the oracle's value for target 0, the
\* same antenna and the same component.
C9_RelativePerAntenna ==
    PolynomialsReturned =>
        LET out == Get(polyOut.array)
            targets == Get(dp).targets
        IN  \A t \in DOMAIN out : \A a \in DOMAIN out[t] : \A c \in {1, 2} :
                out[t][a][c] = oracle[<<targets[t].direction, AntennaAtOutput(a)>>][c]
                                 - oracle[<<targets[1].direction, AntennaAtOutput(a)>>][c]

\* C9's case: the second target's value for the second antenna is a
\* difference of two different nonzero oracle values.
C9_Witness ==
    /\ PolynomialsReturned
    /\ Len(Get(dp).targets) = 2 /\ Len(Get(dp).antennas) = 2
    /\ oracle[<<Get(dp).targets[1].direction, AntennaAtOutput(2)>>] = <<3, 1>>
    /\ oracle[<<Get(dp).targets[2].direction, AntennaAtOutput(2)>>] = <<5, 2>>
    /\ oracle[<<Get(dp).targets[1].direction, AntennaAtOutput(1)>>] = <<5, 2>>
    /\ Get(polyOut.array)[2][2] = <<2, 1>>

\* C10: the antenna at output index a is the antenna at index a of the input
\* antenna list, whatever the order of the list.
C10_InputAntennaOrder ==
    PolynomialsReturned =>
        LET out == Get(polyOut.array)
            targets == Get(dp).targets
            antennas == Get(dp).antennas
        IN  \A t \in DOMAIN out : \A a \in DOMAIN antennas : \A c \in {1, 2} :
                out[t][a][c] = oracle[<<targets[t].direction, antennas[a]>>][c]
                                 - oracle[<<targets[1].direction, antennas[a]>>][c]

(***************************************************************************)
(* Claims about the Overlap stage (SpecOverlap).                           *)
(***************************************************************************)
\* A calculate_fractions call on a counter-mode Overlap has returned.
FractionsReturned ==
    /\ ov # None /\ Get(ov).mode = "counter"
    /\ fr.called /\ fr.error = NoError /\ fr.fractions # None

\* C3: calculate_fractions() on a counter-mode Overlap returns three values
\* whose sum is 1, whatever the grid, a grid with no points included.
C3_FractionsSumToOne ==
    FractionsReturned =>
        LET f == Get(fr.fractions)
        IN  SumIsOne(f.overlapped, f.non_overlapped, f.empty)

\* C4: on a counter-mode Overlap whose grid holds coverage counts,
\* calculate_fractions() returns (points with count > 1) / N,
\* (points with count = 1) / N and (points with count = 0) / N, N the number
\* of grid points, and every grid point is in exactly one of the three
\* classes.
C4_FractionsOfGrid ==
    FractionsReturned =>
        LET f == Get(fr.fractions)
            m == Get(ov).metrics
            N == Len(m)
            over == {i \in 1..N : m[i] > 1}
            single == {i \in 1..N : m[i] = 1}
            empty == {i \in 1..N : m[i] = 0}
        IN  /\ over \cup single \cup empty = 1..N
            /\ over \cap single = {} /\ over \cap empty = {}
            /\ single \cap empty = {}
            /\ SameQuotient(f.overlapped, Divide(Cardinality(over), N))
            /\ SameQuotient(f.non_overlapped, Divide(Cardinality(single), N))
            /\ SameQuotient(f.empty, Divide(Cardinality(empty), N))

\* C4's case: a grid with a point of each class has been measured.
C4_Witness ==
    /\ FractionsReturned
    /\ Get(ov).metrics = <<2, 1, 0>>
    /\ Get(fr.fractions).overlapped = Divide(1, 3)

\* C5: calculate_fractions() on an Overlap whose mode is not "counter" fails
\* with UnsupportedModeError, returns no fractions and leaves the Overlap as
\* it was.
C5_UnsupportedModeError ==
    [][(ov # None /\ Get(ov).mode # "counter" /\ fr'.called)
         => (/\ fr'.error = "UnsupportedModeError"
             /\ fr'.fractions = None
             /\ ov' = ov)]_vars

(***************************************************************************)
(* Claims about the generation of Tilings (SpecTiling).                     *)
(***************************************************************************)
\* C2: a Tiling built by generate_nbeams_tiling(beam_shape, n, overlap) has
\* beam_num = n whenever the packing engine answered the request for n
\* centers with exactly n.
C2_NbeamsRoundTrip ==
    \A t \in TilingRefs :
        (/\ tilings[t] # None
         /\ Get(packCalls[t]).fn = "ellipseCompact"
         /\ Get(packCalls[t]).centers = Get(packCalls[t]).args[1])
        => Get(tilings[t]).beam_num = Get(packCalls[t]).args[1]

\* C2's case: n = 1 was asked for and one center came back.
C2_Witness ==
    /\ tilings["t1"] # None
    /\ Get(packCalls["t1"]).fn = "ellipseCompact"
    /\ Get(packCalls["t1"]).args[1] = 1
    /\ Get(packCalls["t1"]).centers = 1
    /\ Get(tilings["t1"]).beam_num = 1

\* C7: width_at_overlap rejects every overlap <= 0 and every overlap >= 1
\* with InvalidOverlapError and returns no widths, so that no packing-engine
\* call is made and no Tiling is built for such an overlap.
C7_InvalidOverlapRejected ==
    /\ (last # None /\ ~IsValidOverlap(Get(last).overlap))
         => (Get(last).error = "InvalidOverlapError" /\ Get(last).widths = None)
    /\ \A t \in TilingRefs :
         /\ packCalls[t] # None => IsValidOverlap(Get(packCalls[t]).overlap)
         /\ tilings[t] # None => IsValidOverlap(Get(tilings[t]).overlap)

\* C11: for a BeamShape with axisH > 0 and axisV > 0 and an overlap inside
\* (0, 1), the widths width_at_overlap returns are finite and strictly
\* positive on each axis, and strictly smaller than the widths at every
\* smaller overlap inside (0, 1) and strictly larger than those at every
\* larger one.
C11_WidthPositiveDecreasing ==
    (/\ last # None
     /\ IsValidOverlap(Get(last).overlap)
     /\ shapes[Get(last).shape].axisH > 0
     /\ shapes[Get(last).shape].axisV > 0)
    => LET call == Get(last)
           widths == Get(call.widths)
       IN  /\ call.error = NoError
           /\ \A i \in {1, 2} :
                /\ widths[i].kind = "finite"
                /\ widths[i].value > 0
                /\ \A other \in ValidOverlaps :
                     LET w == width_at_overlap(shapes[call.shape], other)[i]
                     IN  /\ other < call.overlap => w.value > widths[i].value
                         /\ other > call.overlap => w.value < widths[i].value

\* C11's case: the widths of the first BeamShape at overlap 0.5, with a
\* smaller and a larger overlap to compare with.
C11_Witness ==
    /\ last # None
    /\ Get(last).shape = 1 /\ Get(last).overlap = 50
    /\ Get(Get(last).widths) = <<Finite(1998), Finite(999)>>
    /\ width_at_overlap(shapes[1], 25)[1].value > 1998
    /\ width_at_overlap(shapes[1], 75)[1].value < 1998

\* C20: a Tiling built by generate_radius_tiling has the requested radius as
\* its tiling_radius and the number of centers ellipseGrid answered with as
\* its beam_num, and no beam number is among the arguments of the ellipseGrid
\* call (radius, widthH, widthV, angle); a Tiling built by
\* generate_nbeams_tiling has the radius ellipseCompact answered with as its
\* tiling_radius.
C20_RadiusAndCount ==
    \A t \in TilingRefs :
        tilings[t] # None =>
            LET self == Get(tilings[t])
                call == Get(packCalls[t])
            IN  IF call.fn = "ellipseGrid"
                THEN /\ Len(call.args) = 4
                     /\ self.tiling_radius = call.args[1]
                     /\ self.beam_num = call.centers
                     /\ call.radius = None
                ELSE /\ call.fn = "ellipseCompact"
                     /\ call.radius # None
                     /\ self.tiling_radius = Get(call.radius)

\* C20's case: 2 beams were asked for and ellipseCompact answered with one
\* center and the radius 0.
C20_Witness ==
    /\ tilings["t1"] # None
    /\ Get(packCalls["t1"]).fn = "ellipseCompact"
    /\ Get(packCalls["t1"]).args[1] = 2
    /\ Get(packCalls["t1"]).centers = 1
    /\ Get(tilings["t1"]).tiling_radius = 0

(***************************************************************************)
(* Claims about Tilings and their overlap calculation (SpecCalculate).     *)
(***************************************************************************)
\* C1: every Tiling has beam_num = len(coordinates), whichever generator
\* built it and whatever was called on it afterwards; the coordinates are
\* pairs, one per center the packing engine answered with
\* (generate_radius_tiling stores the transpose of the engine's 2 x k array).
C1_BeamNumIsLength ==
    \A t \in TilingRefs :
        tilings[t] # None =>
            LET self == Get(tilings[t])
            IN  /\ self.beam_num = Len(self.coordinates)
                /\ self.beam_num = Get(packCalls[t]).centers
                /\ \A i \in DOMAIN self.coordinates : Len(self.coordinates[i]) = 2

\* C1's case: a Tiling of one beam built by generate_radius_tiling, after a
\* calculate_overlap or plot_sky_pattern call on it.
C1_Witness ==
    /\ tilings["t1"] # None
    /\ Get(packCalls["t1"]).fn = "ellipseGrid"
    /\ Get(tilings["t1"]).beam_num = 1
    /\ ovCall # None

\* C19: calculate_overlap(mode, new_beam_shape) hands the overlap computation
\* the axisH, axisV and angle of new_beam_shape when one is given and of the
\* Tiling's own BeamShape when it is None, together with the Tiling's
\* coordinates, tiling_radius and overlap; the Overlap it returns has the
\* requested mode; the call changes no field of the Tiling and of no
\* BeamShape.
C19_EffectiveBeamShape ==
    [][(ovCall' # None /\ ovCall' # ovCall)
       => LET call == Get(ovCall')
              self == Get(tilings[call.tiling])
              mode == call.request[1]
              new_beam_shape == call.request[2]
              effective == IF new_beam_shape = None
                           THEN shapes[self.beam_shape]
                           ELSE shapes[Get(new_beam_shape)]
          IN  /\ call.args[1] = self.coordinates
              /\ call.args[2] = self.tiling_radius
              /\ call.args[3] = effective.axisH
              /\ call.args[4] = effective.axisV
              /\ call.args[5] = effective.angle
              /\ call.args[6] = self.overlap
              /\ call.args[7] = mode
              /\ call.result.mode = mode
              /\ tilings' = tilings
              /\ shapes' = shapes]_vars

\* C19's case: a Tiling of the first BeamShape whose overlap was calculated
\* for the second BeamShape.
C19_Witness ==
    /\ ovCall # None
    /\ Get(ovCall).request = <<"counter", Some(2)>>
    /\ Get(tilings[Get(ovCall).tiling]).beam_shape = 1
    /\ Get(tilings[Get(ovCall).tiling]).beam_num = 2
    /\ Get(ovCall).args[3] = 1500 /\ Get(ovCall).args[5] = 0
    /\ Get(ovCall).args[1] = Get(tilings[Get(ovCall).tiling]).coordinates

(***************************************************************************)
(* Claims about repeated width_at_overlap calls (SpecWidth).               *)
(***************************************************************************)
\* C12: two width_at_overlap calls with the same overlap on the same
\* BeamShape return the same widths, whatever ran between them (other
\* width_at_overlap calls, tiling generation, calculate_overlap), and no
\* BeamShape field ever changes.
C12_WidthIsPure ==
    /\ shapes = TilingShapes
    /\ \A i, j \in DOMAIN widthLog :
         (/\ widthLog[i].shape = widthLog[j].shape
          /\ widthLog[i].overlap = widthLog[j].overlap)
         => widthLog[i].widths = widthLog[j].widths

\* C12's case: the second BeamShape asked for its widths at overlap 0.25
\* before any Tiling existed, then at overlap 0.5, and at overlap 0.25 again
\* after a Tiling was generated and its overlap calculated.
C12_Witness ==
    /\ Len(widthLog) = 3
    /\ widthLog[1].shape = 2 /\ widthLog[1].overlap = 25
    /\ ~widthLog[1].generated /\ ~widthLog[1].overlapped
    /\ widthLog[2].shape = 2 /\ widthLog[2].overlap = 50
    /\ widthLog[3].shape = 2 /\ widthLog[3].overlap = 25
    /\ widthLog[3].generated /\ widthLog[3].overlapped
    /\ Get(widthLog[3].widths)[1] = Finite(2119)
    /\ Get(widthLog[2].widths)[1] # Finite(2119)

(***************************************************************************)
(* Claims about Tilings that share a BeamShape (SpecSharing).              *)
(***************************************************************************)
\* C21: whatever width_at_overlap, generator, calculate_overlap and
\* plot_sky_pattern calls were made, every BeamShape has the axisH, axisV,
\* angle, bore_sight, antennas, reference_antenna and horizon it was
\* constructed with; every Tiling references the BeamShape object its
\* generator was given, so two Tilings built from one BeamShape hold the same
\* object and see the same field values.
C21_BeamShapeShared ==
    /\ \A s \in ShapeIds :
         /\ shapes[s].axisH = TilingShapes[s].axisH
         /\ shapes[s].axisV = TilingShapes[s].axisV
         /\ shapes[s].angle = TilingShapes[s].angle
         /\ shapes[s].bore_sight = TilingShapes[s].bore_sight
         /\ shapes[s].antennas = TilingShapes[s].antennas
         /\ shapes[s].reference_antenna = TilingShapes[s].reference_antenna
         /\ shapes[s].horizon = TilingShapes[s].horizon
    /\ \A t \in TilingRefs :
         tilings[t] # None =>
             Get(tilings[t]).beam_shape = Get(packCalls[t]).beam_shape
    /\ \A t, u \in TilingRefs :
         (/\ tilings[t] # None /\ tilings[u] # None
          /\ Get(packCalls[t]).beam_shape = Get(packCalls[u]).beam_shape)
         => /\ Get(tilings[t]).beam_shape = Get(tilings[u]).beam_shape
            /\ shapes[Get(tilings[t]).beam_shape]
                 = shapes[Get(tilings[u]).beam_shape]

\* C21's case: two Tilings built from the first BeamShape by the two
\* generators, after an overlap calculation with the second BeamShape as the
\* override and a width_at_overlap call.
C21_Witness ==
    /\ tilings["t1"] # None /\ tilings["t2"] # None
    /\ Get(packCalls["t1"]).fn = "ellipseCompact"
    /\ Get(packCalls["t2"]).fn = "ellipseGrid"
    /\ Get(tilings["t1"]).beam_shape = 1 /\ Get(tilings["t2"]).beam_shape = 1
    /\ ovCall # None /\ Get(ovCall).request[2] = Some(2)
    /\ last # None /\ Get(last).overlap = 25

(***************************************************************************)
(* Claims about interleaved get_beam_shape calls (SpecInterleave).         *)
(***************************************************************************)
\* The BeamShape get_beam_shape(source, time) of PsfSim i is to return: the
\* axes, horizon and psf of the contour of its own antennas for its own
\* boresight and time.
OwnBeamShape(i, source, time) ==
    LET bore_sight == check_source(source)
        antennas == Get(psfs[i].antennas)
        contour == [boreSight |-> bore_sight, observeTime |-> time,
                    antennas |-> antennas]
        axes == BeamAxisOf(contour)
    IN  BeamShapeObject(axes[1], axes[2], axes[3], contour, antennas,
                        bore_sight, ReferenceAntenna,
                        HorizonOf(bore_sight, time))

\* C23: two PsfSim objects never hold the same engine, and however the
\* engine calls of their get_beam_shape calls interleave, and whatever
\* boresight and time earlier calls left in an engine, every call returns
\* the BeamShape of its own source, time and antennas.
C23_OwnEngine ==
    /\ \A i, j \in StepIds : i # j => psfs[i].observation # psfs[j].observation
    /\ \A i \in StepIds :
         psfs[i].result # None
         => LET result == Get(psfs[i].result)
            IN  result.shape = OwnBeamShape(i, result.args[1], result.args[2])

\* C23's case: the first PsfSim returned a shape while the second was in
\* the middle of a call with another source and time, its engine holding
\* another boresight and time from its own earlier call when the call
\* began; the second then returned its shape.
C23_Witness ==
    /\ psfs[1].result # None /\ psfs[2].result # None
    /\ LET first == Get(psfs[1].result)
           second == Get(psfs[2].result)
       IN  /\ first.during = {2}
           /\ first.args[1] # second.args[1]
           /\ first.args[2] # second.args[2]
           /\ first.before[1] # None /\ first.before[2] # None
           /\ first.before[1] # Some(check_source(first.args[1]))
           /\ first.before[2] # Some(first.args[2])

(***************************************************************************)
(* Claims about the Pack button of the GUI (SpecPack).                     *)
(***************************************************************************)
\* The state of the Pack button is in order: state is 0 or 1 once it is
\* set, state 1 comes with newData False, and ellipseCompact ran at most
\* once since the last resetPackState.
PackStateInOrder(g) ==
    /\ g.state \in {None, Some(0), Some(1)}
    /\ g.state = Some(1) => g.newData = Some(FALSE)
    /\ g.packs <= 1

\* C24: after any sequence of Pack clicks, resetPackState calls and contour
\* updates, state is 0 or 1 and state 1 implies newData False; the packing
\* computation runs only in a click taken with state 0 and newData True, at
\* most once between two resets; a further click without new data only
\* turns state 1 into 0 and 0 into 1, showing the fitted (or contour) image
\* and the packed image in turn.
C24_PackStateMachine ==
    [][/\ PackStateInOrder(gui) /\ PackStateInOrder(gui')
       /\ gui'.packs > gui.packs
          => /\ gui'.clicks = gui.clicks + 1
             /\ WithDefaults(gui).state = Some(0)
             /\ WithDefaults(gui).newData = Some(TRUE)
             /\ gui'.packing # None
       /\ (gui'.clicks # gui.clicks /\ gui.newData = Some(FALSE))
          => /\ gui'.state = Some(1 - Get(gui.state))
             /\ gui'.newData = Some(FALSE)
             /\ gui'.packs = gui.packs /\ gui'.packing = gui.packing
             /\ gui'.fittedImage = gui.fittedImage
             /\ gui'.label = IF gui'.state = Some(1) THEN "pack" ELSE "fit"]_vars

=============================================================================
